---- MODULE Spec2Model ----
(***************************************************************************)
(* VoicevoxTTSGenerator (src/main.py): an AstrBot plugin that turns        *)
(* Japanese text into speech through the VOICEVOX Engine HTTP API.         *)
(*                                                                         *)
(* The handlers are asyncio coroutines / async generators.  The event loop *)
(* runs one task at a time and switches tasks only at an await that really *)
(* suspends (an HTTP exchange, the sleep of the removal task) or at a      *)
(* yield of an async generator.  Every action below is the code one task   *)
(* runs between two such points.  Tasks is the set of concurrently running *)
(* handler invocations.                                                    *)
(***************************************************************************)
EXTENDS Integers, Sequences, FiniteSets, TLC

\* ---------------------------------------------------------------- bounds
\* how many temp files tempfile.NamedTemporaryFile may hand out in a run
MaxFiles == 2
\* how many handler invocations are started in a run
MaxInvocations == 4

Tasks == {"t1", "t2"}

\* ---------------------------------------------------------------- values
None == "None"

\* Text is a sequence of runs of characters; a run has a script and a width.
\* "ja200" stands for 200 kana in a row, so that max_length (200) is crossed.
Runs == {"ja1", "ja200", "en1", "sp1"}

RunWidth(r) == IF r = "ja200" THEN 200 ELSE 1

RECURSIVE len(_)
\* Python len(str)
len(s) == IF s = << >> THEN 0 ELSE RunWidth(Head(s)) + len(Tail(s))

RECURSIVE lstrip(_)
lstrip(s) == IF s # << >> /\ Head(s) = "sp1" THEN lstrip(Tail(s)) ELSE s

RECURSIVE rstrip(_)
rstrip(s) ==
    IF s # << >> /\ s[Len(s)] = "sp1" THEN rstrip(SubSeq(s, 1, Len(s) - 1)) ELSE s

\* str.strip()
strip(s) == rstrip(lstrip(s))

RECURSIVE CountScript(_, _)
CountScript(s, script) ==
    IF s = << >> THEN 0
    ELSE (IF Head(s) \in script THEN RunWidth(Head(s)) ELSE 0)
         + CountScript(Tail(s), script)

\* langid.classify(text)[0]: the library is outside the repository; it is
\* stood for by a majority vote over the scripts of the characters.
classify(s) ==
    IF CountScript(s, {"ja1", "ja200"}) > CountScript(s, {"en1"}) THEN "ja" ELSE "en"

\* the texts a user or the LLM may send
Texts ==
    { << >>, <<"sp1">>, <<"en1">>, <<"ja200">>, <<"ja1", "ja200">> }

\* message components
Plain(t) == [type |-> "Plain", text |-> t, file |-> 0]
Image == [type |-> "Image", text |-> << >>, file |-> 0]
Record(path) == [type |-> "Record", text |-> << >>, file |-> path]

\* event.plain_result(msg): msg is the name of the message
plain_result(msg) == [type |-> "Plain", text |-> msg, file |-> 0]

\* event.chain_result(chain)
chain_result(chain) == [type |-> "Chain", text |-> "", file |-> chain[1].file]

\* the result chains an event may carry into on_decorating_result
Chains ==
    { << >>, <<Plain(<<"en1">>)>>, <<Plain(<<"ja1">>), Plain(<<"sp1">>)>>,
      <<Plain(<<"ja1">>), Plain(<<"ja200">>)>>, <<Plain(<<"ja1">>), Image>> }

\* event.get_result(): no result, or a result with a chain and an LLM flag
NoResult == [present |-> FALSE, llm |-> FALSE, chain |-> << >>]
EventResults ==
    {NoResult} \cup [present : {TRUE}, llm : BOOLEAN, chain : Chains]

\* GET /speakers answers: a list of speakers, each with named styles and ids
Style(n, i) == [name |-> n, id |-> i]
SpeakersA ==
    << [name |-> "v1", styles |-> <<Style("s1", 1), Style("s2", 2)>>],
       [name |-> "v2", styles |-> <<Style("s1", 3)>>] >>
SpeakersB == << [name |-> "v2", styles |-> <<Style("s1", 3)>>] >>
SpeakerLists == {SpeakersA, SpeakersB}

\* the indices a user may give to "voice set" / "style set"
Indices == 0 .. 3

\* HTTP statuses the engine may answer with, and response bodies
OK == 200
Statuses == {200, 422, 500}
Queries == {"q1", "q2"}
ErrorBodies == {"e1"}
Audios == {"wav1"}

\* default of config.get("max_length", 200)
DefaultMaxLength == 200


\* ---------------------------------------------------------------- state
VARIABLES
    config,     \* self.config: the keys that are set, with their values
    session,    \* self.session: [cur: 0 for None or a session id, made: how many were created, closed]
    files,      \* the temp files that exist on disk (their paths)
    nextFile,   \* how many names NamedTemporaryFile has handed out
    handed,     \* the paths handed to the host (yielded chain_result, or result.chain)
    removals,   \* the delayed_file_removal tasks created and not yet run (their paths)
    started,    \* how many handler invocations were started
    task        \* per task: the invocation it runs (position, arguments, locals, results)

vars == <<config, session, files, nextFile, handed, removals, started, task>>

\* ---------------------------------------------------------------- config
\* dict.get(key, default)
ConfigGet(cfg, key, default) == IF key \in DOMAIN cfg THEN cfg[key] ELSE default

\* dict[key] = value
ConfigPut(cfg, key, value) ==
    [k \in DOMAIN cfg \cup {key} |-> IF k = key THEN value ELSE cfg[k]]

\* Python truthiness of an optional string
Falsy(v) == v = None \/ v = ""

\* ---------------------------------------------------------------- exceptions
NoExc == [type |-> "none", where |-> "", status |-> 0, body |-> ""]
Exc(type, where) == [type |-> type, where |-> where, status |-> 0, body |-> ""]
\* ConnectionError(f"{where} 请求失败: ({status}) {body}")
StatusError(where, status, body) ==
    [type |-> "ConnectionError", where |-> where, status |-> status, body |-> body]

\* ---------------------------------------------------------------- HTTP
\* what an HTTP exchange may end with: a response (status and body read), an
\* aiohttp.ClientError (raised while connecting or while reading the body), or
\* asyncio.TimeoutError (the session's total timeout; not a ClientError)
Resp(status, body) == [kind |-> "resp", status |-> status, body |-> body]
Broken == {[kind |-> "client_error", status |-> 0, body |-> ""],
           [kind |-> "timeout", status |-> 0, body |-> ""]}

QueryOutcomes ==
    {Resp(OK, q) : q \in Queries}
    \cup {Resp(s, b) : s \in Statuses \ {OK}, b \in ErrorBodies} \cup Broken
SynthesisOutcomes ==
    {Resp(OK, a) : a \in Audios}
    \cup {Resp(s, b) : s \in Statuses \ {OK}, b \in ErrorBodies} \cup Broken
SpeakersOutcomes ==
    {Resp(s, "") : s \in Statuses} \cup Broken

\* a request as issued: endpoint, query parameters, JSON body, the session used
Request(ep, text, speaker, json, sess) ==
    [ep |-> ep, text |-> text, speaker |-> speaker, json |-> json, session |-> sess,
     kind |-> "pending", status |-> 0, body |-> ""]

\* the exception an exchange raises by itself (before any status check)
Transport(o, where) ==
    IF o.kind = "client_error" THEN Exc("ClientError", where)
    ELSE IF o.kind = "timeout" THEN Exc("TimeoutError", where)
    ELSE NoExc

\* ---------------------------------------------------------------- tasks
IdleTask ==
    [pc |-> "idle", kind |-> "none", text |-> << >>, index |-> 0,
     enabled |-> None, result |-> NoResult, result0 |-> NoResult,
     voice |-> None, style |-> None, speakers |-> << >>, speaker_id |-> -1,
     audio_query |-> "", path |-> 0,
     out |-> << >>, reqs |-> << >>, err |-> NoExc, escaped |-> NoExc]

NewTask(kind) == [IdleTask EXCEPT !.pc = "run", !.kind = kind]

\* the task after it issued a request and suspended at `at`
Issue(t, req, at) == [t EXCEPT !.reqs = Append(@, req), !.pc = at]

\* the task after the exchange of its last request ended with outcome o
Answer(t, o) ==
    [t EXCEPT !.reqs[Len(t.reqs)] =
        [@ EXCEPT !.kind = o.kind, !.status = o.status, !.body = o.body]]

\* the task after it yielded r to the conversation
Yield(t, r) == [t EXCEPT !.out = Append(@, r)]

Finish(t) == [t EXCEPT !.pc = "done"]


\* ---------------------------------------------------------------- helpers of the plugin
\* (a variant that opens a new session on every call)
ensure_session_Always(sess) ==
    [cur |-> sess.made + 1, made |-> sess.made + 1, closed |-> FALSE]

\* ensure_session has no await inside: it runs without a task switch
ensure_session(sess) ==
    IF sess.cur = 0 \/ sess.closed
    THEN [cur |-> sess.made + 1, made |-> sess.made + 1, closed |-> FALSE]
    ELSE sess

\* (a variant that only rejects the empty text)
_is_japanese_NonEmpty(text) == text # << >>

_is_japanese(text) ==
    IF text = << >> THEN FALSE ELSE classify(text) = "ja"

_validate_length(cfg, string) ==
    len(string) <= ConfigGet(cfg, "max_length", DefaultMaxLength)

\* ClientError is the only exception the two network-error handlers rewrite
\* (except aiohttp.ClientError); builtins.ConnectionError is not one
IsClientError(e) == e.type = "ClientError"

\* (a variant without the status check)
AudioQueryRaises_NoStatusCheck(o) == Transport(o, "audio_query")

\* _call_voicevox_api, the audio_query exchange inside the try
AudioQueryRaises(o) ==
    IF Transport(o, "audio_query") # NoExc THEN Transport(o, "audio_query")
    ELSE IF o.status # OK THEN StatusError("audio_query", o.status, o.body)
    ELSE NoExc

\* _call_voicevox_api, the synthesis exchange inside the try
SynthesisRaises(o) ==
    IF Transport(o, "synthesis") # NoExc THEN Transport(o, "synthesis")
    ELSE IF o.status # OK THEN StatusError("synthesis", o.status, o.body)
    ELSE NoExc

\* (a variant whose handler is "except Exception")
CallApiExcept_CatchAll(e) ==
    IF e # NoExc THEN Exc("ConnectionError", "communication") ELSE e

\* _call_voicevox_api, except aiohttp.ClientError as e: raise ConnectionError(...)
CallApiExcept(e) ==
    IF IsClientError(e) THEN Exc("ConnectionError", "communication") ELSE e

\* the request _call_voicevox_api posts to /audio_query
AudioQueryRequest(text, speaker, sess) ==
    Request("audio_query", text, speaker, "", sess.cur)

\* the request _call_voicevox_api posts to /synthesis
SynthesisRequest(audio_query, speaker, sess) ==
    Request("synthesis", << >>, speaker, audio_query, sess.cur)

\* _list_speakers: the request, what the exchange raises, and the except clause
SpeakersRequest(sess) == Request("speakers", << >>, -1, "", sess.cur)

ListSpeakersRaises(o) ==
    IF Transport(o, "speakers") # NoExc THEN Transport(o, "speakers")
    ELSE IF o.status # OK THEN StatusError("speakers", o.status, "")
    ELSE NoExc

ListSpeakersExcept(e) ==
    IF IsClientError(e) THEN Exc("ConnectionError", "connect") ELSE e

\* next((s for s in seq if s["name"] == name), None): the index of the first
\* element with that name, 0 for None
FindByName(seq, name) ==
    IF \E i \in 1 .. Len(seq) : seq[i].name = name
    THEN CHOOSE i \in 1 .. Len(seq) :
            /\ seq[i].name = name
            /\ \A j \in 1 .. i - 1 : seq[j].name # name
    ELSE 0

\* _get_speaker_id before its await: the configured voice and style must be set
SpeakerIdPrecheck(voice, style) ==
    IF Falsy(voice) \/ Falsy(style) THEN Exc("ValueError", "unset") ELSE NoExc

\* (a variant that falls back to the first style of the voice)
SpeakerIdLookup_FirstStyle(speakers, voice, style) ==
    LET si == FindByName(speakers, voice) IN
    IF si = 0 THEN [exc |-> Exc("ValueError", "voice"), id |-> -1]
    ELSE LET yi == FindByName(speakers[si].styles, style) IN
         [exc |-> NoExc, id |-> speakers[si].styles[IF yi = 0 THEN 1 ELSE yi].id]

\* _get_speaker_id after _list_speakers returned: [exc, id]
SpeakerIdLookup(speakers, voice, style) ==
    LET si == FindByName(speakers, voice) IN
    IF si = 0 THEN [exc |-> Exc("ValueError", "voice"), id |-> -1]
    ELSE LET yi == FindByName(speakers[si].styles, style) IN
         IF yi = 0 THEN [exc |-> Exc("ValueError", "style"), id |-> -1]
         ELSE [exc |-> NoExc, id |-> speakers[si].styles[yi].id]

\* ---------------------------------------------------------------- handler boundary
\* the message a command yields from its except clause
FailMessage(kind) ==
    CASE kind = "gen" -> "gen_failed"
      [] kind = "voice_list" -> "voice_list_failed"
      [] kind = "voice_set" -> "voice_set_failed"
      [] kind = "style_list" -> "style_list_failed"
      [] kind = "style_set" -> "style_set_failed"
      [] kind = "enable" -> "enable_failed"
      [] kind = "disable" -> "disable_failed"
      [] OTHER -> "none"

\* (a variant whose handlers are "except ConnectionError")
HandlerCatches_OnlyConnectionError(e) == e.type = "ConnectionError"

\* except Exception as e: every exception the code can raise is an Exception
HandlerCatches(e) ==
    e.type \in {"ValueError", "ConnectionError", "ClientError", "TimeoutError", "OSError"}

\* what the except clause of a handler does with a caught exception: the commands
\* log it and yield their failure message, on_decorating_result only logs it
HandlerExcept(t, e) ==
    IF t.kind = "hook" THEN Finish([t EXCEPT !.err = e])
    ELSE Finish(Yield([t EXCEPT !.err = e], plain_result(FailMessage(t.kind))))

\* the task after exception e was raised inside the handler's try
Raise(t, e) ==
    IF HandlerCatches(e) THEN HandlerExcept(t, e)
    ELSE Finish([t EXCEPT !.escaped = e])


\* ---------------------------------------------------------------- Init
\* after __init__: no session, a freshly loaded config with no voice, no style and
\* no enable_voicevox key, nothing running
Init ==
    /\ config = << >>
    /\ session = [cur |-> 0, made |-> 0, closed |-> FALSE]
    /\ files = {}
    /\ nextFile = 0
    /\ handed = {}
    /\ removals = {}
    /\ started = 0
    /\ task = [p \in Tasks |-> IdleTask]

\* A finished invocation stays visible in one state (pc = "done") and its task is
\* released before anything else runs: the release reads and writes nothing but
\* the finished task's own record, so it commutes with every other step.
Quiet == \A q \in Tasks : task[q].pc # "done"

\* a task is free to run the next handler invocation the host dispatches
Free(p) == Quiet /\ task[p].pc = "idle" /\ started < MaxInvocations

\* the handler's coroutine has ended: its frame is gone
release(p) ==
    /\ task[p].pc = "done"
    /\ task' = [task EXCEPT ![p] = IdleTask]
    /\ UNCHANGED <<config, session, files, nextFile, handed, removals, started>>

\* the session after task record t left its first piece of code: it called
\* ensure_session exactly when it went on to issue a request
SessionAfter(t) == IF t.pc \in {"speakers"} THEN ensure_session(session) ELSE session

\* _get_speaker_id up to the await in _list_speakers (raises, or issues GET /speakers)
BeginSpeakerId(t) ==
    LET voice == ConfigGet(config, "default_voice", None)
        style == ConfigGet(config, "default_style", None)
        u == [t EXCEPT !.voice = voice, !.style = style]
    IN  IF SpeakerIdPrecheck(voice, style) # NoExc
        THEN Raise(u, SpeakerIdPrecheck(voice, style))
        ELSE Issue(u, SpeakersRequest(ensure_session(session)), "speakers")

\* ---------------------------------------------------------------- /voicevox gen
GenBegin(text) ==
    LET t == [NewTask("gen") EXCEPT !.text = text] IN
    IF strip(text) = << >> THEN Finish(Yield(t, plain_result("empty_text")))
    ELSE IF ~_is_japanese(text) THEN Finish(Yield(t, plain_result("not_japanese")))
    ELSE IF ~_validate_length(config, text) THEN Finish(Yield(t, plain_result("too_long")))
    ELSE BeginSpeakerId(t)

generate_speech(p, text) ==
    /\ Free(p)
    /\ task' = [task EXCEPT ![p] = GenBegin(text)]
    /\ session' = SessionAfter(task'[p])
    /\ started' = started + 1
    /\ UNCHANGED <<config, files, nextFile, handed, removals>>

\* ---------------------------------------------------------------- on_decorating_result
RECURSIVE PlainText(_)
\* the loop over result.chain: [plain: all components are Plain, text: their texts joined]
PlainText(chain) ==
    IF chain = << >> THEN [plain |-> TRUE, text |-> << >>]
    ELSE IF Head(chain).type # "Plain" THEN [plain |-> FALSE, text |-> << >>]
    ELSE LET rest == PlainText(Tail(chain)) IN
         [plain |-> rest.plain, text |-> Head(chain).text \o rest.text]

\* the checks on_decorating_result makes before its try
HookPasses(cfg, result) ==
    /\ ConfigGet(cfg, "enable_voicevox", "True") = "True"
    /\ result.present /\ result.llm
    /\ PlainText(result.chain).plain
    /\ _is_japanese(PlainText(result.chain).text)
    /\ _validate_length(cfg, PlainText(result.chain).text)

HookBegin(result) ==
    LET t == [NewTask("hook") EXCEPT
                !.enabled = ConfigGet(config, "enable_voicevox", "True"),
                !.result = result, !.result0 = result] IN
    IF ~HookPasses(config, result) THEN Finish(t)
    ELSE BeginSpeakerId([t EXCEPT !.text = PlainText(result.chain).text])

on_decorating_result(p, result) ==
    /\ Free(p)
    /\ task' = [task EXCEPT ![p] = HookBegin(result)]
    /\ session' = SessionAfter(task'[p])
    /\ started' = started + 1
    /\ UNCHANGED <<config, files, nextFile, handed, removals>>

\* ---------------------------------------------------------------- _get_speaker_id resumed
\* GET /speakers ended with outcome o, answering the list `speakers` when it is 200:
\* gen and the hook resolve the id and go on to _call_voicevox_api
SpeakerIdResume(t, o, speakers) ==
    LET a == Answer(t, o)
        e == ListSpeakersExcept(ListSpeakersRaises(o))
        r == SpeakerIdLookup(speakers, t.voice, t.style)
    IN  IF e # NoExc THEN Raise(a, e)
        ELSE IF r.exc # NoExc THEN Raise([a EXCEPT !.speakers = speakers], r.exc)
        ELSE Issue([a EXCEPT !.speakers = speakers, !.speaker_id = r.id],
                   AudioQueryRequest(t.text, r.id, ensure_session(session)), "query")

get_speaker_id_resume(p, o, speakers) ==
    /\ Quiet
    /\ task[p].pc = "speakers" /\ task[p].kind \in {"gen", "hook"}
    /\ task' = [task EXCEPT ![p] = SpeakerIdResume(task[p], o, speakers)]
    /\ session' = IF task'[p].pc = "query" THEN ensure_session(session) ELSE session
    /\ UNCHANGED <<config, files, nextFile, handed, removals, started>>

\* ---------------------------------------------------------------- _call_voicevox_api resumed
\* POST /audio_query ended with outcome o
AudioQueryResume(t, o) ==
    LET a == Answer(t, o)
        e == CallApiExcept(AudioQueryRaises(o))
    IN  IF e # NoExc THEN Raise(a, e)
        ELSE Issue([a EXCEPT !.audio_query = o.body],
                   SynthesisRequest(o.body, t.speaker_id, session), "synth")

audio_query_resume(p, o) ==
    /\ Quiet
    /\ task[p].pc = "query"
    /\ task' = [task EXCEPT ![p] = AudioQueryResume(task[p], o)]
    /\ UNCHANGED <<config, session, files, nextFile, handed, removals, started>>


\* what writing the temp file may end with: written, NamedTemporaryFile raised (no
\* file), or write raised after the file was created (delete=False: it stays)
WriteOutcomes == {"ok", "create_failed", "write_failed"}

\* gen: chain = [Record(file=path)]; yield event.chain_result(chain)
GenDeliver(t, path) ==
    [Yield([t EXCEPT !.path = path], chain_result(<<Record(path)>>)) EXCEPT !.pc = "yielded"]

\* (the variant of the commented-out line 358: result.chain.append(Record(...)))
HookDeliver_Append(t, path) ==
    Finish([t EXCEPT !.path = path, !.result.chain = Append(@, Record(path))])

\* hook: result.chain = [Record(file=path)]; create_task(delayed_file_removal(path))
HookDeliver(t, path) ==
    Finish([t EXCEPT !.path = path, !.result.chain = <<Record(path)>>])

\* POST /synthesis ended with outcome o; writing the temp file ended with w
SynthesisResume(t, o, w, path) ==
    LET a == Answer(t, o)
        e == CallApiExcept(SynthesisRaises(o))
    IN  IF e # NoExc THEN Raise(a, e)
        ELSE IF w = "create_failed" THEN Raise(a, Exc("OSError", "tempfile"))
        ELSE IF w = "write_failed" THEN Raise(a, Exc("OSError", "write"))
        ELSE IF t.kind = "gen" THEN GenDeliver(a, path)
        ELSE HookDeliver(a, path)

synthesis_resume(p, o, w) ==
    LET ok == CallApiExcept(SynthesisRaises(o)) = NoExc
        created == ok /\ w \in {"ok", "write_failed"}
        path == nextFile + 1
    IN  /\ Quiet
        /\ task[p].pc = "synth"
        /\ created => nextFile < MaxFiles
        /\ task' = [task EXCEPT ![p] = SynthesisResume(task[p], o, w, path)]
        /\ files' = IF created THEN files \cup {path} ELSE files
        /\ nextFile' = IF created THEN path ELSE nextFile
        /\ handed' = IF ok /\ w = "ok" THEN handed \cup {path} ELSE handed
        /\ removals' = IF ok /\ w = "ok" /\ task[p].kind = "hook"
                       THEN removals \cup {path} ELSE removals
        /\ UNCHANGED <<config, session, started>>

\* gen resumed after its yield of the audio: os.remove(temp_audio_path), inside the try
GenResume(t, removed) ==
    IF removed THEN Finish(t) ELSE Raise(t, Exc("OSError", "remove"))

generate_speech_resume(p, removed) ==
    /\ Quiet
    /\ task[p].pc = "yielded"
    /\ task' = [task EXCEPT ![p] = GenResume(task[p], removed)]
    /\ files' = IF removed THEN files \ {task[p].path} ELSE files
    /\ UNCHANGED <<config, session, nextFile, handed, removals, started>>

\* the background task of the hook, after its sleep: os.remove(path), a failure is logged
delayed_file_removal(path, removed) ==
    /\ Quiet
    /\ path \in removals
    /\ removals' = removals \ {path}
    /\ files' = IF removed THEN files \ {path} ELSE files
    /\ UNCHANGED <<config, session, nextFile, handed, started, task>>

\* ---------------------------------------------------------------- voice list / voice set
list_voices(p) ==
    /\ Free(p)
    /\ task' = [task EXCEPT ![p] =
            Issue(NewTask("voice_list"), SpeakersRequest(ensure_session(session)), "speakers")]
    /\ session' = ensure_session(session)
    /\ started' = started + 1
    /\ UNCHANGED <<config, files, nextFile, handed, removals>>

ListVoicesResume(t, o, speakers) ==
    LET a == Answer(t, o)
        e == ListSpeakersExcept(ListSpeakersRaises(o))
    IN  IF e # NoExc THEN Raise(a, e)
        ELSE Finish(Yield([a EXCEPT !.speakers = speakers], plain_result("voice_list")))

list_voices_resume(p, o, speakers) ==
    /\ Quiet
    /\ task[p].pc = "speakers" /\ task[p].kind = "voice_list"
    /\ task' = [task EXCEPT ![p] = ListVoicesResume(task[p], o, speakers)]
    /\ UNCHANGED <<config, session, files, nextFile, handed, removals, started>>

set_voice(p, voice_index) ==
    /\ Free(p)
    /\ task' = [task EXCEPT ![p] =
            Issue([NewTask("voice_set") EXCEPT !.index = voice_index],
                  SpeakersRequest(ensure_session(session)), "speakers")]
    /\ session' = ensure_session(session)
    /\ started' = started + 1
    /\ UNCHANGED <<config, files, nextFile, handed, removals>>

\* index < 0 or index >= len(seq), with index = int(user_index) - 1
InvalidIndex(user_index, seq) == user_index - 1 < 0 \/ user_index - 1 >= Len(seq)

SetVoiceResume(t, o, speakers) ==
    LET a == [Answer(t, o) EXCEPT !.speakers = speakers]
        e == ListSpeakersExcept(ListSpeakersRaises(o))
    IN  IF e # NoExc THEN Raise(Answer(t, o), e)
        ELSE IF InvalidIndex(t.index, speakers)
        THEN Finish(Yield(a, plain_result("invalid_voice_index")))
        ELSE Finish(Yield([a EXCEPT !.voice = speakers[t.index].name],
                          plain_result("voice_set")))

\* self.config["default_voice"] = selected_voice, when set_voice gets that far
SetVoiceConfig(cfg, t, o, speakers) ==
    IF ListSpeakersExcept(ListSpeakersRaises(o)) = NoExc /\ ~InvalidIndex(t.index, speakers)
    THEN ConfigPut(cfg, "default_voice", speakers[t.index].name)
    ELSE cfg

set_voice_resume(p, o, speakers) ==
    /\ Quiet
    /\ task[p].pc = "speakers" /\ task[p].kind = "voice_set"
    /\ task' = [task EXCEPT ![p] = SetVoiceResume(task[p], o, speakers)]
    /\ config' = SetVoiceConfig(config, task[p], o, speakers)
    /\ UNCHANGED <<session, files, nextFile, handed, removals, started>>


\* ---------------------------------------------------------------- style list / style set
\* both commands start alike: voice_name = config.get("default_voice"); None ends the
\* command with a message, otherwise GET /speakers is issued
StyleBegin(kind, style_index) ==
    LET voice_name == ConfigGet(config, "default_voice", None)
        t == [NewTask(kind) EXCEPT !.index = style_index, !.voice = voice_name]
    IN  IF voice_name = None THEN Finish(Yield(t, plain_result("need_voice")))
        ELSE Issue(t, SpeakersRequest(ensure_session(session)), "speakers")

list_styles(p) ==
    /\ Free(p)
    /\ task' = [task EXCEPT ![p] = StyleBegin("style_list", 0)]
    /\ session' = SessionAfter(task'[p])
    /\ started' = started + 1
    /\ UNCHANGED <<config, files, nextFile, handed, removals>>

ListStylesResume(t, o, speakers) ==
    LET a == [Answer(t, o) EXCEPT !.speakers = speakers]
        e == ListSpeakersExcept(ListSpeakersRaises(o))
    IN  IF e # NoExc THEN Raise(Answer(t, o), e)
        ELSE IF FindByName(speakers, t.voice) = 0
        THEN Finish(Yield(a, plain_result("voice_not_found")))
        ELSE Finish(Yield(a, plain_result("style_list")))

list_styles_resume(p, o, speakers) ==
    /\ Quiet
    /\ task[p].pc = "speakers" /\ task[p].kind = "style_list"
    /\ task' = [task EXCEPT ![p] = ListStylesResume(task[p], o, speakers)]
    /\ UNCHANGED <<config, session, files, nextFile, handed, removals, started>>

set_style(p, style_index) ==
    /\ Free(p)
    /\ task' = [task EXCEPT ![p] = StyleBegin("style_set", style_index)]
    /\ session' = SessionAfter(task'[p])
    /\ started' = started + 1
    /\ UNCHANGED <<config, files, nextFile, handed, removals>>

\* the styles of the speaker named voice_name, << >> when there is none
StylesOf(speakers, voice_name) ==
    IF FindByName(speakers, voice_name) = 0 THEN << >>
    ELSE speakers[FindByName(speakers, voice_name)].styles

SetStyleResume(t, o, speakers) ==
    LET a == [Answer(t, o) EXCEPT !.speakers = speakers]
        e == ListSpeakersExcept(ListSpeakersRaises(o))
        styles == StylesOf(speakers, t.voice)
    IN  IF e # NoExc THEN Raise(Answer(t, o), e)
        ELSE IF FindByName(speakers, t.voice) = 0
        THEN Finish(Yield(a, plain_result("voice_not_found")))
        ELSE IF InvalidIndex(t.index, styles)
        THEN Finish(Yield(a, plain_result("invalid_style_index")))
        ELSE Finish(Yield([a EXCEPT !.style = styles[t.index].name],
                          plain_result("style_set")))

\* (a variant that indexes the styles of the first speaker of the list)
SetStyleConfig_FirstSpeaker(cfg, t, o, speakers) ==
    IF /\ ListSpeakersExcept(ListSpeakersRaises(o)) = NoExc
       /\ FindByName(speakers, t.voice) # 0
       /\ ~InvalidIndex(t.index, speakers[1].styles)
    THEN ConfigPut(cfg, "default_style", speakers[1].styles[t.index].name)
    ELSE cfg

\* self.config["default_style"] = selected_style, when set_style gets that far
SetStyleConfig(cfg, t, o, speakers) ==
    IF /\ ListSpeakersExcept(ListSpeakersRaises(o)) = NoExc
       /\ FindByName(speakers, t.voice) # 0
       /\ ~InvalidIndex(t.index, StylesOf(speakers, t.voice))
    THEN ConfigPut(cfg, "default_style", StylesOf(speakers, t.voice)[t.index].name)
    ELSE cfg

set_style_resume(p, o, speakers) ==
    /\ Quiet
    /\ task[p].pc = "speakers" /\ task[p].kind = "style_set"
    /\ task' = [task EXCEPT ![p] = SetStyleResume(task[p], o, speakers)]
    /\ config' = SetStyleConfig(config, task[p], o, speakers)
    /\ UNCHANGED <<session, files, nextFile, handed, removals, started>>

\* ---------------------------------------------------------------- enable / disable
\* the flag is set in memory, then save_config() either returns or raises
SwitchVoicevox(kind, saved) ==
    IF saved
    THEN Finish(Yield(NewTask(kind),
                      plain_result(IF kind = "enable" THEN "enabled" ELSE "disabled")))
    ELSE Raise(NewTask(kind), Exc("OSError", "save_config"))

enable_voicevox(p, saved) ==
    /\ Free(p)
    /\ config' = ConfigPut(config, "enable_voicevox", "True")
    /\ task' = [task EXCEPT ![p] = SwitchVoicevox("enable", saved)]
    /\ started' = started + 1
    /\ UNCHANGED <<session, files, nextFile, handed, removals>>

disable_voicevox(p, saved) ==
    /\ Free(p)
    /\ config' = ConfigPut(config, "enable_voicevox", "False")
    /\ task' = [task EXCEPT ![p] = SwitchVoicevox("disable", saved)]
    /\ started' = started + 1
    /\ UNCHANGED <<session, files, nextFile, handed, removals>>

\* ---------------------------------------------------------------- specification
\* the speaker list a GET /speakers answers with: one of `lists` with status 200
Answered(o, lists) == IF o.kind = "resp" /\ o.status = OK THEN lists ELSE {<< >>}

\* the temp-file outcomes that go with an exchange: none is tried after a failure
Written(o) == IF o.kind = "resp" /\ o.status = OK THEN WriteOutcomes ELSE {"ok"}

\* the steps of the plugin against an engine that serves the speaker lists `lists`
Step(lists) ==
    \/ \E p \in Tasks, text \in Texts : generate_speech(p, text)
    \/ \E p \in Tasks, result \in EventResults : on_decorating_result(p, result)
    \/ \E p \in Tasks, o \in SpeakersOutcomes, l \in SpeakerLists \cup {<< >>} :
          l \in Answered(o, lists) /\ get_speaker_id_resume(p, o, l)
    \/ \E p \in Tasks, o \in QueryOutcomes : audio_query_resume(p, o)
    \/ \E p \in Tasks, o \in SynthesisOutcomes, w \in WriteOutcomes :
          w \in Written(o) /\ synthesis_resume(p, o, w)
    \/ \E p \in Tasks, removed \in BOOLEAN : generate_speech_resume(p, removed)
    \/ \E path \in 1 .. MaxFiles + 1, removed \in BOOLEAN : delayed_file_removal(path, removed)
    \/ \E p \in Tasks : list_voices(p)
    \/ \E p \in Tasks, o \in SpeakersOutcomes, l \in SpeakerLists \cup {<< >>} :
          l \in Answered(o, lists) /\ list_voices_resume(p, o, l)
    \/ \E p \in Tasks, i \in Indices : set_voice(p, i)
    \/ \E p \in Tasks, o \in SpeakersOutcomes, l \in SpeakerLists \cup {<< >>} :
          l \in Answered(o, lists) /\ set_voice_resume(p, o, l)
    \/ \E p \in Tasks : list_styles(p)
    \/ \E p \in Tasks, o \in SpeakersOutcomes, l \in SpeakerLists \cup {<< >>} :
          l \in Answered(o, lists) /\ list_styles_resume(p, o, l)
    \/ \E p \in Tasks, i \in Indices : set_style(p, i)
    \/ \E p \in Tasks, o \in SpeakersOutcomes, l \in SpeakerLists \cup {<< >>} :
          l \in Answered(o, lists) /\ set_style_resume(p, o, l)
    \/ \E p \in Tasks, saved \in BOOLEAN : enable_voicevox(p, saved)
    \/ \E p \in Tasks, saved \in BOOLEAN : disable_voicevox(p, saved)
    \/ \E p \in Tasks : release(p)

Next == Step(SpeakerLists)

Spec == Init /\ [][Next]_vars

\* the same plugin against an engine whose speaker list never changes
NextFixed == Step({SpeakersA})

SpecFixed == Init /\ [][NextFixed]_vars


\* ================================================================ properties
\* the requests of the current invocation of task p, and shorthands on them
Reqs(p) == task[p].reqs
Is200(r) == r.kind = "resp" /\ r.status = OK
Speech(p) == task[p].kind \in {"gen", "hook"}
ApiReq(r) == r.ep \in {"audio_query", "synthesis"}

\* C1: in every run of _call_voicevox_api the POST /synthesis comes right after a
\* POST /audio_query of the same run that answered 200, carries the query object
\* that call returned and the same speaker id; an audio_query that failed (another
\* status or a network error) is the last request of its run.
C1_SynthesisAfterQuery ==
    \A p \in Tasks : \A i \in 1 .. Len(Reqs(p)) :
        /\ Reqs(p)[i].ep = "synthesis" =>
              /\ i > 1
              /\ Reqs(p)[i - 1].ep = "audio_query"
              /\ Is200(Reqs(p)[i - 1])
              /\ Reqs(p)[i].json = Reqs(p)[i - 1].body
              /\ Reqs(p)[i].json \in Queries
              /\ Reqs(p)[i].speaker = Reqs(p)[i - 1].speaker
        /\ (/\ Reqs(p)[i].ep = "audio_query"
            /\ Reqs(p)[i].kind # "pending"
            /\ ~Is200(Reqs(p)[i])) => i = Len(Reqs(p))

\* a hook run and a gen run are both awaiting /synthesis, with different query objects
C1_Witness ==
    \E p, q \in Tasks :
        /\ task[p].kind = "hook" /\ task[p].pc = "synth" /\ task[p].audio_query = "q2"
        /\ task[q].kind = "gen" /\ task[q].pc = "synth" /\ task[q].audio_query = "q1"

\* C2: when /audio_query or /synthesis answers with a status other than 200,
\* _call_voicevox_api ends with the ConnectionError that names that call, status and
\* body (not the rewritten network error), and no audio reaches a file or the
\* conversation.
C2_StatusErrorSurfaces ==
    \A p \in Tasks :
        LET n == Len(Reqs(p)) IN
        (/\ n > 0
         /\ ApiReq(Reqs(p)[n])
         /\ Reqs(p)[n].kind = "resp"
         /\ Reqs(p)[n].status # OK) =>
            /\ task[p].pc = "done"
            /\ task[p].err.type = "ConnectionError"
            /\ task[p].err.where = Reqs(p)[n].ep
            /\ task[p].err.status = Reqs(p)[n].status
            /\ task[p].err.body = Reqs(p)[n].body
            /\ task[p].path = 0
            /\ task[p].result = task[p].result0
            /\ \A k \in 1 .. Len(task[p].out) : task[p].out[k].type # "Chain"

\* a run whose /synthesis answered 422 has ended with that error
C2_Witness ==
    \E p \in Tasks :
        /\ task[p].pc = "done"
        /\ Len(Reqs(p)) = 3
        /\ Reqs(p)[3].status = 422
        /\ task[p].err = StatusError("synthesis", 422, "e1")

\* C3: a request to /audio_query or /synthesis is issued only after _get_speaker_id
\* succeeded in the same invocation: the voice and the style it read are set, GET
\* /speakers was the first request and answered 200, and the answered list has a
\* speaker of that name with a style of that name whose id is the one sent.
C3_SpeakerResolvedFirst ==
    \A p \in Tasks : \A i \in 1 .. Len(Reqs(p)) :
        ApiReq(Reqs(p)[i]) =>
            /\ i > 1
            /\ Reqs(p)[1].ep = "speakers" /\ Is200(Reqs(p)[1])
            /\ task[p].voice \notin {None, ""} /\ task[p].style \notin {None, ""}
            /\ \E si \in 1 .. Len(task[p].speakers) :
                  /\ task[p].speakers[si].name = task[p].voice
                  /\ \E yi \in 1 .. Len(task[p].speakers[si].styles) :
                        /\ task[p].speakers[si].styles[yi].name = task[p].style
                        /\ task[p].speakers[si].styles[yi].id = Reqs(p)[i].speaker

\* a run sends /audio_query with id 2 after resolving voice v1, style s2
C3_Witness ==
    \E p \in Tasks :
        /\ task[p].pc = "query"
        /\ task[p].voice = "v1" /\ task[p].style = "s2"
        /\ Reqs(p)[2].speaker = 2

\* the text an invocation of gen or of the hook is about
TextOf(p) ==
    IF task[p].kind = "hook" THEN PlainText(task[p].result0.chain).text ELSE task[p].text

\* C5: every HTTP request of gen or of the hook is for a text classified as Japanese
\* and of at most max_length (200) characters; for gen the text is not blank, for
\* the hook enable_voicevox was read true, the result is an LLM result and every
\* component is Plain.  An invocation that fails a check issues no request.
C5_ChecksBeforeRequests ==
    \A p \in Tasks :
        (Speech(p) /\ Reqs(p) # << >>) =>
            /\ TextOf(p) # << >>
            /\ classify(TextOf(p)) = "ja"
            /\ len(TextOf(p)) <= DefaultMaxLength
            /\ task[p].kind = "gen" => \E k \in 1 .. Len(TextOf(p)) : TextOf(p)[k] # "sp1"
            /\ task[p].kind = "hook" =>
                  /\ task[p].enabled = "True"
                  /\ task[p].result0.present /\ task[p].result0.llm
                  /\ \A k \in 1 .. Len(task[p].result0.chain) :
                        task[p].result0.chain[k].type = "Plain"

\* gen with a text of exactly 200 characters and the hook with a two-component
\* chain have both issued their requests
C5_Witness ==
    \E p, q \in Tasks :
        /\ task[p].kind = "gen" /\ len(task[p].text) = 200 /\ Len(Reqs(p)) = 3
        /\ task[q].kind = "hook" /\ Len(task[q].result0.chain) = 2 /\ Len(Reqs(q)) = 1

\* C7: ensure_session creates a session only when there is none (or it is closed);
\* no session is ever closed, so at most one is created under any interleaving, and
\* every request of every task goes through it.
C7_SingleSession ==
    /\ session.made <= 1
    /\ session.cur = session.made
    /\ \A p \in Tasks : \A i \in 1 .. Len(Reqs(p)) :
          Reqs(p)[i].session = session.cur /\ session.cur # 0

\* two invocations are awaiting the engine at once, on the one session
C7_Witness ==
    \E p, q \in Tasks :
        /\ p # q
        /\ task[p].pc = "query" /\ task[q].pc = "speakers"
        /\ session.made = 1


\* the handlers C4 lists
Listed == {"gen", "voice_list", "voice_set", "style_list", "style_set", "hook"}

\* task p has issued no request twice in its invocation
AtMostOnce(p) ==
    \A i, j \in 1 .. Len(Reqs(p)) : i # j => Reqs(p)[i].ep # Reqs(p)[j].ep

\* task p has ended its invocation in its except clause
Failed(p) == task[p].pc = "done" /\ task[p].err # NoExc

\* C4 as claimed: every failure in a listed handler, the hook included, is caught
\* and turned into a text message to the conversation; no exception escapes and no
\* request is issued twice.
C4_Original ==
    \A p \in Tasks :
        task[p].kind \in Listed =>
            /\ task[p].escaped = NoExc
            /\ AtMostOnce(p)
            /\ Failed(p) =>
                  /\ task[p].out # << >>
                  /\ task[p].out[Len(task[p].out)].type = "Plain"

\* C4 as amended: no exception escapes a listed handler and no request is issued
\* twice; a failure in a command (gen, voice list, voice set, style list, style set)
\* ends it with that command's failure message as the last result yielded; a failure
\* in on_decorating_result is caught and logged only: nothing is sent and the result
\* chain stays as it was.
C4_FailuresCaught ==
    \A p \in Tasks :
        task[p].kind \in Listed =>
            /\ task[p].escaped = NoExc
            /\ AtMostOnce(p)
            /\ Failed(p) =>
                  IF task[p].kind = "hook"
                  THEN task[p].out = << >> /\ task[p].result = task[p].result0
                  ELSE /\ task[p].out # << >>
                       /\ task[p].out[Len(task[p].out)].type = "Plain"
                       /\ task[p].out[Len(task[p].out)].text
                             \in {"gen_failed", "voice_list_failed", "voice_set_failed",
                                  "style_list_failed", "style_set_failed"}

\* the hook ended in its except clause on an unresolved style, after one request
C4_Witness ==
    \E p \in Tasks :
        /\ task[p].kind = "hook" /\ Failed(p)
        /\ task[p].err = Exc("ValueError", "style")
        /\ Len(Reqs(p)) = 1

\* C6 as claimed (its safety part): a temp file is removed only after its path was
\* handed to the host, and a removal that fails leaves the conversation with exactly
\* what was delivered before it.
C6_Claim ==
    /\ \A path \in 1 .. nextFile : path \notin files => path \in handed
    /\ \A p \in Tasks :
          task[p].err.where = "remove" =>
              task[p].out = <<chain_result(<<Record(task[p].path)>>)>>

\* C8 as claimed: the chain is replaced, by exactly one Record, only while
\* enable_voicevox is true: never between a disable and the next enable.
C8_Original ==
    [][\A p \in Tasks :
          (/\ task[p].kind = "hook" /\ task'[p].kind = "hook"
           /\ task'[p].result.chain # task[p].result.chain) =>
              /\ ConfigGet(config, "enable_voicevox", "True") = "True"
              /\ task'[p].result.chain = <<Record(task'[p].path)>>]_vars

\* C8 as amended: the chain of a hook invocation is what it was before the call, or
\* exactly one Record of the temp file this invocation wrote and handed over; it is
\* replaced only when the invocation read enable_voicevox as true at its start (one
\* that starts while the plugin is disabled never replaces it; one already awaiting
\* the engine when disable runs still may), the result is an LLM result of Plain
\* components whose text is Japanese and within max_length, the speaker id was
\* resolved, and /speakers, /audio_query and /synthesis all answered 200; after any
\* failure the chain is unchanged.
C8_ChainFrame ==
    \A p \in Tasks :
        task[p].kind = "hook" =>
            \/ task[p].result = task[p].result0
            \/ /\ task[p].result.chain = <<Record(task[p].path)>>
               /\ task[p].path \in 1 .. nextFile
               /\ task[p].path \in handed
               /\ \A q \in Tasks \ {p} : task[q].path # task[p].path
               /\ task[p].enabled = "True"
               /\ task[p].result0.present /\ task[p].result0.llm
               /\ \A k \in 1 .. Len(task[p].result0.chain) :
                     task[p].result0.chain[k].type = "Plain"
               /\ classify(TextOf(p)) = "ja"
               /\ len(TextOf(p)) <= DefaultMaxLength
               /\ task[p].speaker_id \in 1 .. 3
               /\ Len(Reqs(p)) = 3
               /\ \A i \in 1 .. 3 : Is200(Reqs(p)[i])
               /\ task[p].err = NoExc

\* the hook replaced a two-component chain after the plugin was disabled under it
C8_Witness ==
    \E p \in Tasks :
        /\ task[p].kind = "hook" /\ task[p].pc = "done"
        /\ Len(task[p].result0.chain) = 2
        /\ task[p].result.chain = <<Record(task[p].path)>>
        /\ ConfigGet(config, "enable_voicevox", "True") = "False"

\* the names of the styles of the speaker named voice in SpeakersA
StyleNames(speakers, voice) ==
    {StylesOf(speakers, voice)[k].name : k \in 1 .. Len(StylesOf(speakers, voice))}

\* C9 as claimed: against a fixed speaker list, whenever both default_voice and
\* default_style are set, default_style is a style of the speaker default_voice.
C9_Original ==
    ("default_voice" \in DOMAIN config /\ "default_style" \in DOMAIN config) =>
        config["default_style"] \in StyleNames(SpeakersA, config["default_voice"])

\* task p ends a "voice set" / "style set" command in this step
SetStep(p, kind) ==
    task[p].kind = kind /\ task[p].pc = "speakers" /\ task'[p].pc = "done"

Said(t, msg) == t.out # << >> /\ t.out[Len(t.out)].text = msg

\* C9 as amended: a "voice set" or "style set" with an index below 1 or above the
\* length of its list, or one that fails, leaves default_voice and default_style
\* unchanged; a successful "voice set" writes only default_voice, the name at that
\* index, and leaves default_style as it is (which then may name no style of the new
\* voice); a successful "style set" writes only default_style, the name at that
\* index among the styles of the speaker whose name the command read as
\* default_voice when it started.
C9_SetCommands ==
    [][\A p \in Tasks :
          /\ SetStep(p, "voice_set") =>
                IF Said(task'[p], "voice_set")
                THEN /\ task[p].index \in 1 .. Len(task'[p].speakers)
                     /\ config' = ConfigPut(config, "default_voice",
                                            task'[p].speakers[task[p].index].name)
                ELSE config' = config
          /\ SetStep(p, "style_set") =>
                IF Said(task'[p], "style_set")
                THEN /\ task[p].index \in 1 .. Len(StylesOf(task'[p].speakers, task[p].voice))
                     /\ config' = ConfigPut(config, "default_style",
                           StylesOf(task'[p].speakers, task[p].voice)[task[p].index].name)
                ELSE config' = config
          /\ (SetStep(p, "voice_set") /\ task[p].index \notin 1 .. Len(task'[p].speakers))
                => config' = config
          /\ (/\ SetStep(p, "style_set")
              /\ task[p].index \notin 1 .. Len(StylesOf(task'[p].speakers, task[p].voice)))
                => config' = config]_vars

\* after "voice set 1", "style set 2", "voice set 2": the style s2 is kept under v2
C9_Witness ==
    /\ "default_style" \in DOMAIN config /\ "default_voice" \in DOMAIN config
    /\ config["default_voice"] = "v2" /\ config["default_style"] = "s2"
    /\ \E p \in Tasks : task[p].pc = "done" /\ Said(task[p], "voice_set")

\* C10 as claimed: an invocation of gen yields at most one result, exactly one once
\* it has ended, and the audio record only after three requests answered 200.
C10_Claim ==
    \A p \in Tasks :
        task[p].kind = "gen" =>
            /\ Len(task[p].out) <= 1
            /\ task[p].pc = "done" => Len(task[p].out) = 1
            /\ \A k \in 1 .. Len(task[p].out) :
                  task[p].out[k].type = "Chain" =>
                      /\ Len(Reqs(p)) = 3
                      /\ \A i \in 1 .. 3 : Is200(Reqs(p)[i])

====
